---- MODULE Spec2Model ----
(***************************************************************************)
(* Support-graph construction and pruning (src/src/support_graph.py).      *)
(*                                                                         *)
(* A Bayesian network is a record [nodes, edges]; a support node is the    *)
(* pair <<variable, forbidden set>>; a support graph is a record           *)
(* [nodes, edges] over support nodes, an edge <<J, I>> meaning J -> I      *)
(* (J supports I).  Graph objects live in `heap`, so that copying a graph  *)
(* and aliasing it are different things.                                   *)
(***************************************************************************)
EXTENDS Integers, FiniteSets, Sequences, TLC

VARIABLES bn, pc, root, heap, f_sets, stack, error, blanket,
          evidence, inRef, outRef, calls, passes, nesting_limit

vars == <<bn, pc, root, heap, f_sets, stack, error, blanket,
          evidence, inRef, outRef, calls, passes, nesting_limit>>

(***************************************************************************)
(* Bounds.  Variables are numbered; every DAG has a topological numbering, *)
(* so the networks over 1..n with edges i -> j, i < j, are all DAGs with   *)
(* n nodes up to renaming.                                                 *)
(***************************************************************************)
MaxVars == 3

ForwardPairs(n) == {e \in (1 .. n) \X (1 .. n) : e[1] < e[2]}

\* The network of the example run: Motive 1, Crime 2, Twin 3,
\* Psych_report 4, DNA_match 5.
bn_crime ==
    [nodes |-> {1, 2, 3, 4, 5},
     edges |-> {<<1, 4>>, <<1, 2>>, <<2, 5>>, <<3, 5>>}]

Networks ==
    {[nodes |-> 1 .. n, edges |-> es] :
        n \in 1 .. MaxVars, es \in SUBSET ForwardPairs(MaxVars)}

WellFormed(b) == \A e \in b.edges : e[1] \in b.nodes /\ e[2] \in b.nodes

\* Two variables with two common children.
bn_shared ==
    [nodes |-> {1, 2, 3, 4},
     edges |-> {<<1, 3>>, <<1, 4>>, <<2, 3>>, <<2, 4>>}]

InputNetworks == {b \in Networks : WellFormed(b)} \cup {bn_crime, bn_shared}

\* The number of nested _expand calls the interpreter allows before it
\* raises RecursionError.  _expand and _add_support take one interpreter
\* frame each per nesting level, so CPython's default limit of 1000 frames
\* allows 498 nested expansions under a caller at module level; a caller
\* that is itself deep in the stack, or a lowered limit, allows fewer.
DefaultNesting == 498

SmallNesting == 2

\* The limits a build is run under: a low one, one that allows exactly as
\* many nested expansions as the network has variables, and the default.
NestingLimits(b) == {SmallNesting, Cardinality(b.nodes), DefaultNesting}

\* An identifier that no input network contains.
UnknownVar == MaxVars + Cardinality(bn_crime.nodes) + 1

(***************************************************************************)
(* networkx.DiGraph queries                                                *)
(***************************************************************************)
predecessors(g, v) == {u \in g.nodes : <<u, v>> \in g.edges}

successors(g, v) == {w \in g.nodes : <<v, w>> \in g.edges}

has_edge(g, a, b) == <<a, b>> \in g.edges

\* bn.predecessors(variable) raises NetworkXError("The node ... is not in
\* the digraph.") for a variable the network does not contain.
NotFoundLenient(b, v) == FALSE

NodeNotFound(b, v) == v \notin b.nodes

get_markov_blanket(b, variable) ==
    LET children == successors(b, variable)
    IN  (predecessors(b, variable) \cup children
           \cup UNION {predecessors(b, child) : child \in children})
          \ {variable}

(***************************************************************************)
(* _expand: the forbidden set of each case                                 *)
(***************************************************************************)
parent_f_new_same(F, var_j) == F

parent_f_new(F, var_j) == F \cup {var_j}

child_f_new_no_var(b, F, var_i, var_j) ==
    F \cup (predecessors(b, var_j) \ {var_i})

child_f_new_no_parents(b, F, var_i, var_j) == F \cup {var_j}

child_f_new(b, F, var_i, var_j) ==
    (F \cup {var_j}) \cup (predecessors(b, var_j) \ {var_i})

spouse_f_new(F, var_j, var_k) == F \cup {var_j, var_k}

common_children(b, var_i, var_j) == successors(b, var_i) \cap successors(b, var_j)

\* The for loop of _expand visits each Markov-blanket variable once, in the
\* order of a Python set, which the program does not fix.
remaining_after(todo, var_j) == todo \ {var_j}

\* A call frame of _expand(bn, sg, node_i, f_sets): the variables of the
\* blanket still to visit, and the (spouse, common child) pairs of the
\* inner loop still to visit.
NewFrame(b, node_i) ==
    [node |-> node_i, todo |-> get_markov_blanket(b, node_i[1]), kids |-> {}]

(***************************************************************************)
(* _add_support                                                            *)
(***************************************************************************)
_add_support_reversed(g, node_i, var_j, f_new) ==
    LET node_j == <<var_j, f_new>>
    IN  IF node_j \notin g.nodes
        THEN [g |-> [nodes |-> g.nodes \cup {node_j},
                     edges |-> g.edges \cup {<<node_i, node_j>>}],
              expand |-> TRUE, node_j |-> node_j]
        ELSE [g |-> [nodes |-> g.nodes,
                     edges |-> g.edges \cup {<<node_i, node_j>>}],
              expand |-> FALSE, node_j |-> node_j]

_add_support(g, node_i, var_j, f_new) ==
    LET node_j == <<var_j, f_new>>
    IN  IF node_j \notin g.nodes
        THEN [g |-> [nodes |-> g.nodes \cup {node_j},
                     edges |-> g.edges \cup {<<node_j, node_i>>}],
              expand |-> TRUE, node_j |-> node_j]
        ELSE [g |-> [nodes |-> g.nodes,
                     edges |-> g.edges \cup {<<node_j, node_i>>}],
              expand |-> FALSE, node_j |-> node_j]

\* _add_support needs frames for a new node (add_node, then _expand and the
\* calls it makes); at the deepest nesting the interpreter allows, the
\* call raises RecursionError.
recursion_exceeded(depth, limit) == depth >= limit

(***************************************************************************)
(* prune_support_graph                                                     *)
(***************************************************************************)
label(node) == node[1]

graph_copy_alias(h, ref) == [heap |-> h, ref |-> ref]

graph_copy(h, ref) == [heap |-> Append(h, h[ref]), ref |-> Len(h) + 1]

RECURSIVE Backward(_, _)
Backward(g, S) ==
    LET more == S \cup {e[1] : e \in {d \in g.edges : d[2] \in S}}
    IN  IF more = S THEN S ELSE Backward(g, more)

\* nx.ancestors(G, node): the nodes with a path to node, node excluded.
ancestors(g, node) == Backward(g, {node}) \ {node}

rule1_with_self(g, ev) ==
    UNION {ancestors(g, node) \cup {node} :
             node \in {n \in g.nodes : label(n) \in ev}}

rule1(g, ev) ==
    UNION {ancestors(g, node) : node \in {n \in g.nodes : label(n) \in ev}}

rule2_any_leaf(g, ev) ==
    {node \in g.nodes : label(node) \notin ev /\ predecessors(g, node) = {}}

rule2(g, ev) ==
    {node \in g.nodes :
        /\ label(node) \notin ev
        /\ predecessors(g, node) = {}
        /\ Cardinality(successors(g, node)) > 0}

nodes_to_remove_rule1_only(g, ev) == rule1(g, ev)

nodes_to_remove(g, ev) == rule1(g, ev) \cup rule2(g, ev)

remove_nodes_from(g, rm) ==
    [nodes |-> g.nodes \ rm,
     edges |-> {e \in g.edges : e[1] \notin rm /\ e[2] \notin rm}]

(***************************************************************************)
(* State machine                                                           *)
(***************************************************************************)
NoError == [type |-> "none", node |-> UnknownVar]

NotFound(v) == [type |-> "NotFound", node |-> v]

RecursionError == [type |-> "RecursionError", node |-> UnknownVar]

NoBlanket == [called |-> FALSE, variable |-> UnknownVar, result |-> {}]

Init ==
    /\ bn \in InputNetworks
    /\ pc = "idle"
    /\ root = UnknownVar
    /\ heap = <<>>
    /\ f_sets = <<>>
    /\ stack = <<>>
    /\ error = NoError
    /\ blanket = NoBlanket
    /\ evidence = {}
    /\ inRef = 0
    /\ outRef = 0
    /\ calls = 0
    /\ passes = 0
    /\ nesting_limit = 0

Top == stack[Len(stack)]

SG == heap[1]

SetTop(fr) == [stack EXCEPT ![Len(stack)] = fr]

PruneIdle == UNCHANGED <<evidence, inRef, outRef, calls, passes>>

\* get_markov_blanket called on its own.
GetMarkovBlanket(v) ==
    /\ pc = "idle"
    /\ IF NodeNotFound(bn, v)
       THEN /\ pc' = "failed"
            /\ error' = NotFound(v)
            /\ blanket' = blanket
       ELSE /\ pc' = "blanket"
            /\ error' = error
            /\ blanket' = [called |-> TRUE, variable |-> v,
                           result |-> get_markov_blanket(bn, v)]
    /\ UNCHANGED <<bn, root, heap, f_sets, stack, nesting_limit>>
    /\ PruneIdle

\* create_support_graph up to the first statement of the loop of _expand.
CreateSupportGraph(v, limit) ==
    /\ pc = "idle"
    /\ root' = v
    /\ LET root_node == <<v, {v}>>
       IN  IF NodeNotFound(bn, v)
           THEN /\ pc' = "failed"
                /\ error' = NotFound(v)
                /\ UNCHANGED <<heap, f_sets, stack, nesting_limit>>
           ELSE /\ pc' = "expand"
                /\ error' = error
                /\ nesting_limit' = limit
                /\ heap' = <<[nodes |-> {root_node}, edges |-> {}]>>
                /\ f_sets' = (root_node :> {v})
                /\ stack' = <<NewFrame(bn, root_node)>>
    /\ UNCHANGED <<bn, blanket>>
    /\ PruneIdle

\* The call of _add_support from the frame on top of the stack, whose
\* updated form is fr.  A RecursionError is caught nowhere: it ends
\* create_support_graph, and the graph under construction is lost with it.
Support(fr, var_j, f_new) ==
    LET r == _add_support(SG, fr.node, var_j, f_new)
    IN  IF r.expand /\ recursion_exceeded(Len(stack), nesting_limit)
        THEN /\ pc' = "failed"
             /\ error' = RecursionError
             /\ heap' = <<>>
             /\ stack' = <<>>
             /\ f_sets' = <<>>
             /\ nesting_limit' = 0
        ELSE /\ UNCHANGED <<pc, error, nesting_limit>>
             /\ heap' = [heap EXCEPT ![1] = r.g]
             /\ IF r.expand
                THEN /\ stack' = Append(SetTop(fr), NewFrame(bn, r.node_j))
                     /\ f_sets' = (r.node_j :> r.node_j[2]) @@ f_sets
                ELSE /\ stack' = SetTop(fr)
                     /\ f_sets' = f_sets

InLoop == pc = "expand" /\ stack # <<>> /\ Top.kids = {}

BuildFrame == UNCHANGED <<bn, root, blanket>> /\ PruneIdle

NoRaise == UNCHANGED <<pc, error, nesting_limit>>

ExpandSkip ==
    /\ InLoop
    /\ \E var_j \in Top.todo :
         /\ var_j \in f_sets[Top.node]
         /\ stack' = SetTop([Top EXCEPT !.todo = remaining_after(Top.todo, var_j)])
    /\ UNCHANGED <<heap, f_sets>>
    /\ NoRaise
    /\ BuildFrame

ExpandParent ==
    /\ InLoop
    /\ \E var_j \in Top.todo :
         /\ var_j \notin f_sets[Top.node]
         /\ var_j \in predecessors(bn, Top.node[1])
         /\ Support([Top EXCEPT !.todo = remaining_after(Top.todo, var_j)], var_j,
                    parent_f_new(f_sets[Top.node], var_j))
    /\ BuildFrame

ExpandChild ==
    /\ InLoop
    /\ \E var_j \in Top.todo :
         /\ var_j \notin f_sets[Top.node]
         /\ var_j \notin predecessors(bn, Top.node[1])
         /\ var_j \in successors(bn, Top.node[1])
         /\ Support([Top EXCEPT !.todo = remaining_after(Top.todo, var_j)], var_j,
                    child_f_new(bn, f_sets[Top.node], Top.node[1], var_j))
    /\ BuildFrame

\* Case III: the inner loop over the common children starts.
ExpandSpouse ==
    /\ InLoop
    /\ \E var_j \in Top.todo :
         /\ var_j \notin f_sets[Top.node]
         /\ var_j \notin predecessors(bn, Top.node[1])
         /\ var_j \notin successors(bn, Top.node[1])
         /\ stack' = SetTop([Top EXCEPT
                !.todo = remaining_after(Top.todo, var_j),
                !.kids = {<<var_j, k>> : k \in common_children(bn, Top.node[1], var_j)}])
    /\ UNCHANGED <<heap, f_sets>>
    /\ NoRaise
    /\ BuildFrame

\* One iteration of the inner loop of case III.
ExpandSpouseChild ==
    /\ pc = "expand" /\ stack # <<>>
    /\ \E jk \in Top.kids :
         LET fr == [Top EXCEPT !.kids = Top.kids \ {jk}]
         IN  IF ~has_edge(bn, Top.node[1], jk[1]) /\ ~has_edge(bn, jk[1], Top.node[1])
             THEN Support(fr, jk[1], spouse_f_new(f_sets[Top.node], jk[1], jk[2]))
             ELSE /\ stack' = SetTop(fr)
                  /\ UNCHANGED <<heap, f_sets>>
                  /\ NoRaise
    /\ BuildFrame

\* _expand returns to the _add_support that called it.
ExpandReturn ==
    /\ InLoop
    /\ Top.todo = {}
    /\ Len(stack) > 1
    /\ stack' = SubSeq(stack, 1, Len(stack) - 1)
    /\ UNCHANGED <<heap, f_sets>>
    /\ NoRaise
    /\ BuildFrame

\* The expansion of the root returns and create_support_graph returns.
BuildReturn ==
    /\ InLoop
    /\ Top.todo = {}
    /\ Len(stack) = 1
    /\ stack' = <<>>
    /\ pc' = "built"
    /\ nesting_limit' = 0
    /\ UNCHANGED <<bn, root, heap, f_sets, error, blanket>>
    /\ PruneIdle

BuildStep ==
    \/ ExpandSkip
    \/ ExpandParent
    \/ ExpandChild
    \/ ExpandSpouse
    \/ ExpandSpouseChild
    \/ ExpandReturn
    \/ BuildReturn

\* prune_support_graph(support_graph, evidence_variables): the copy.
PruneCall(ev) ==
    /\ pc = "built"
    /\ LET c == graph_copy(heap, 1)
       IN  /\ heap' = c.heap
           /\ outRef' = c.ref
    /\ inRef' = 1
    /\ evidence' = ev
    /\ calls' = 1
    /\ passes' = 0
    /\ pc' = "prune"
    /\ UNCHANGED <<bn, root, f_sets, stack, error, blanket, nesting_limit>>

\* prune_support_graph applied to the graph it returned, same evidence.
PruneAgain ==
    /\ pc = "pruned"
    /\ calls = 1
    /\ LET c == graph_copy(heap, outRef)
       IN  /\ heap' = c.heap
           /\ outRef' = c.ref
    /\ inRef' = outRef
    /\ calls' = 2
    /\ passes' = 0
    /\ pc' = "prune"
    /\ UNCHANGED <<bn, root, f_sets, stack, error, blanket, evidence, nesting_limit>>

\* One pass of the while loop that removes nodes.
PrunePass ==
    /\ pc = "prune"
    /\ nodes_to_remove(heap[outRef], evidence) # {}
    /\ heap' = [heap EXCEPT ![outRef] =
                  remove_nodes_from(heap[outRef], nodes_to_remove(heap[outRef], evidence))]
    /\ passes' = passes + 1
    /\ UNCHANGED <<bn, pc, root, f_sets, stack, error, blanket,
                   evidence, inRef, outRef, calls, nesting_limit>>

\* The pass that marks nothing: break, return pruned_sg.
PruneReturn ==
    /\ pc = "prune"
    /\ nodes_to_remove(heap[outRef], evidence) = {}
    /\ pc' = "pruned"
    /\ passes' = passes + 1
    /\ UNCHANGED <<bn, root, heap, f_sets, stack, error, blanket,
                   evidence, inRef, outRef, calls, nesting_limit>>

Next ==
    \/ \E v \in bn.nodes \cup {UnknownVar} : GetMarkovBlanket(v)
    \/ \E v \in bn.nodes \cup {UnknownVar}, limit \in NestingLimits(bn) :
          CreateSupportGraph(v, limit)
    \/ BuildStep
    \/ \E ev \in SUBSET (bn.nodes \cup {UnknownVar}) : PruneCall(ev)
    \/ PruneAgain
    \/ PrunePass
    \/ PruneReturn

Spec == Init /\ [][Next]_vars

\* The program is sequential: a call that has started keeps running.
FairSpec == Spec /\ WF_vars(BuildStep) /\ WF_vars(PrunePass \/ PruneReturn)

(***************************************************************************)
(* Properties                                                              *)
(***************************************************************************)
Built == pc \in {"built", "prune", "pruned"}

RootNode == <<root, {root}>>

Acyclic(g) == \A n \in g.nodes : n \notin Backward(g, predecessors(g, n))

\* C1: for every edge J -> I of the support graph, the forbidden set of J is
\* a strict superset of the forbidden set of I and the variable of J is in
\* the forbidden set of J and not in that of I, whichever branch of
\* _add_support added the edge; the graph has no directed cycle.
C1_ForbiddenSetsGrow ==
    (pc \in {"expand", "built"}) =>
        /\ \A e \in SG.edges :
              /\ e[2][2] \subseteq e[1][2]
              /\ e[2][2] # e[1][2]
              /\ e[1][1] \in e[1][2]
              /\ e[1][1] \notin e[2][2]
        /\ Acyclic(SG)

\* A returned graph in which an existing node received a second edge.
C1_Witness ==
    /\ pc = "built"
    /\ \E n \in SG.nodes : Cardinality(successors(SG, n)) >= 2

\* C2: the built graph contains (root, {root}); that node never has an
\* outgoing edge and every other node has at least one.
C2_RootIsTheOnlySink ==
    (pc \in {"expand", "built"}) =>
        /\ RootNode \in SG.nodes
        /\ \A n \in SG.nodes : (successors(SG, n) = {}) <=> (n = RootNode)

C2_Witness ==
    /\ pc = "built"
    /\ Cardinality(SG.nodes) >= 3
    /\ \E n \in SG.nodes : RootNode \notin successors(SG, n) /\ n # RootNode

\* C3 as stated: for every acyclic network and root in it, a started
\* create_support_graph reaches the state where no expansion is pending and
\* the graph is returned.
C3_BuildAlwaysReturns == (pc = "expand") ~> (pc = "built")

\* C3, amended: a started create_support_graph returns the graph whenever
\* the interpreter allows at least as many nested expansions as the network
\* has variables; no expansion is left pending and no RecursionError ends
\* the build, because nested expansions have strictly larger forbidden sets
\* and a node present in the graph is not expanded again.
C3_BuildReturnsWithinLimit ==
    (pc = "expand" /\ nesting_limit >= Cardinality(bn.nodes))
        ~> (pc = "built" /\ stack = <<>>)

\* The nesting is as deep as the network has variables, under a limit that
\* allows exactly that.
C3_Witness ==
    /\ pc = "expand"
    /\ nesting_limit = Cardinality(bn.nodes)
    /\ Len(stack) = nesting_limit
    /\ Len(stack) >= 3

\* The three expansion rules, as the claim states them, applied to the
\* support node n of the network b.
RuleSupports(b, n) ==
    LET v == n[1]
        F == n[2]
        par(x) == {u \in b.nodes : <<u, x>> \in b.edges}
        chi(x) == {c \in b.nodes : <<x, c>> \in b.edges}
        mb == (par(v) \cup chi(v) \cup UNION {par(c) : c \in chi(v)}) \ {v}
    IN  {<<w, F \cup {w}>> : w \in (mb \cap par(v)) \ F}
          \cup {<<w, F \cup {w} \cup (par(w) \ {v})>> :
                   w \in ((mb \cap chi(v)) \ par(v)) \ F}
          \cup UNION {{<<w, F \cup {w, k}>> : k \in chi(v) \cap chi(w)} :
                         w \in ((mb \ par(v)) \ chi(v)) \ F}

RECURSIVE Closure(_, _)
Closure(b, S) ==
    LET more == S \cup UNION {RuleSupports(b, n) : n \in S}
    IN  IF more = S THEN S ELSE Closure(b, more)

ClosureGraph(b, r) ==
    LET ns == Closure(b, {<<r, {r}>>})
    IN  [nodes |-> ns,
         edges |-> UNION {{<<j, n>> : j \in RuleSupports(b, n)} : n \in ns}]

\* The support graph of bn_crime for Crime, derived by hand.
CrimeSupportGraph ==
    LET crime == <<2, {2}>>
        motive == <<1, {1, 2}>>
        psych == <<4, {1, 2, 4}>>
        dna == <<5, {2, 3, 5}>>
        twin == <<3, {2, 3, 5}>>
    IN  [nodes |-> {crime, motive, psych, dna, twin},
         edges |-> {<<motive, crime>>, <<dna, crime>>, <<twin, crime>>,
                    <<psych, motive>>}]

\* C4: the graph create_support_graph returns is the least graph that
\* contains (root, {root}) and is closed under the parent, child and spouse
\* rules, for every iteration order; for bn_crime and Crime it is the
\* hand-derived graph; for a one-node network it is one node and no edge.
C4_LeastClosedGraph ==
    (pc = "built") =>
        /\ SG = ClosureGraph(bn, root)
        /\ (bn = bn_crime /\ root = 2) => SG = CrimeSupportGraph
        /\ (bn.nodes = {root}) => SG = [nodes |-> {RootNode}, edges |-> {}]

C4_Witness ==
    /\ pc = "built"
    /\ bn = bn_crime
    /\ root = 2
    /\ Cardinality(SG.edges) = 4

\* C5: the graph prune_support_graph returns is a fixed point of both rules,
\* and pruning it again with the same evidence returns an equal graph.
C5_PruneIdempotent ==
    (pc = "pruned") =>
        LET g == heap[outRef]
        IN  /\ \A n \in g.nodes :
                  /\ (n[1] \in evidence) => ~(\E e \in g.edges : e[2] = n)
                  /\ (n[1] \notin evidence) =>
                        ~( /\ ~(\E e \in g.edges : e[2] = n)
                           /\ \E e \in g.edges : e[1] = n )
            /\ (calls = 2) => heap[outRef] = heap[inRef]

C5_Witness ==
    /\ pc = "pruned"
    /\ calls = 2
    /\ evidence # {}
    /\ heap[2] # heap[1]
    /\ Cardinality(heap[2].nodes) >= 2

\* C6: while prune_support_graph runs, and when it has returned, its input
\* graph is what it was; the graph it works on is another object, and its
\* nodes and edges are among those of the input.
C6_PruneKeepsInput ==
    [][ (pc' \in {"prune", "pruned"}) =>
          /\ inRef' \in DOMAIN heap
          /\ heap'[inRef'] = heap[inRef']
          /\ outRef' # inRef'
          /\ heap'[outRef'].nodes \subseteq heap'[inRef'].nodes
          /\ heap'[outRef'].edges \subseteq heap'[inRef'].edges ]_vars

C6_Witness ==
    /\ pc = "pruned"
    /\ calls = 1
    /\ passes >= 3
    /\ heap[outRef].nodes # heap[inRef].nodes

\* C7: pruning a freshly built graph with no evidence: rule 1 marks nothing
\* and the loop ends with the root node alone and no edge.
C7_EmptyEvidenceLeavesRoot ==
    (pc \in {"prune", "pruned"} /\ calls = 1 /\ evidence = {}) =>
        /\ rule1(heap[outRef], evidence) = {}
        /\ (pc = "pruned") => heap[outRef] = [nodes |-> {RootNode}, edges |-> {}]

C7_Witness ==
    /\ pc = "pruned"
    /\ calls = 1
    /\ evidence = {}
    /\ passes >= 3
    /\ Cardinality(SG.nodes) >= 3

\* C8: get_markov_blanket and create_support_graph called with a variable
\* the network does not contain fail with a not-found error that names the
\* variable, return nothing, and leave the network as it was.
C8_UnknownVariableFails ==
    [][ (pc = "idle") =>
          /\ (pc' = "blanket") => blanket'.variable \in bn.nodes
          /\ (pc' = "expand") => root' \in bn.nodes
          /\ (pc' = "failed") =>
                /\ error'.type = "NotFound"
                /\ error'.node \notin bn.nodes
                /\ root' \in {root, error'.node}
                /\ heap' = <<>>
                /\ blanket' = NoBlanket
          /\ bn' = bn ]_vars

C8_Witness ==
    /\ pc = "failed"
    /\ root = UnknownVar
    /\ error = NotFound(UnknownVar)
    /\ heap = <<>>

\* C9 as stated: no expansion starts while another is in progress.
C9_DepthAtMostOne == Len(stack) <= 1

\* C9, amended: expansions nest (call-stack recursion); the expansion at
\* nesting depth k has a forbidden set of at least k variables, each nested
\* expansion has a strictly larger forbidden set than the one it is nested
\* in, and the depth never exceeds the number of variables of the network
\* nor the nesting the interpreter allows; a build that needs a deeper
\* nesting ends with RecursionError and returns no graph.
C9_DepthBoundedByForbiddenSet ==
    /\ \A k \in 1 .. Len(stack) :
          /\ Cardinality(stack[k].node[2]) >= k
          /\ (k > 1) =>
                /\ stack[k - 1].node[2] \subseteq stack[k].node[2]
                /\ stack[k - 1].node[2] # stack[k].node[2]
    /\ Len(stack) <= Cardinality(bn.nodes)
    /\ (pc = "expand") => Len(stack) <= nesting_limit
    /\ (error.type = "RecursionError") =>
          pc = "failed" /\ heap = <<>> /\ stack = <<>> /\ root \in bn.nodes

C9_Witness == pc = "expand" /\ Len(stack) >= 3

\* C10: prune_support_graph applied to a freshly built graph never removes
\* the root node, for any evidence set, and every other node of the graph
\* it returns has an outgoing edge.
C10_PruneKeepsRoot ==
    (pc \in {"prune", "pruned"} /\ calls = 1) =>
        /\ RootNode \in heap[outRef].nodes
        /\ (pc = "pruned") =>
              \A n \in heap[outRef].nodes \ {RootNode} :
                  \E e \in heap[outRef].edges : e[1] = n

C10_Witness ==
    /\ pc = "pruned"
    /\ calls = 1
    /\ root \in evidence
    /\ UnknownVar \in evidence
    /\ heap[outRef].nodes # heap[inRef].nodes

====
